---- MODULE Spec2Model ----
(***************************************************************************)
(* ConfiguredAssetFilesystemDataConnector: the reference cache, its        *)
(* refresh, the batch-definition query and the batch-spec construction;    *)
(* ExpectColumnValuesToBeDecreasing: its metric and its validation;        *)
(* ExpectColumnValueLengthsToEqual: validate_configuration.                *)
(*                                                                         *)
(* Python values are encoded as follows.                                   *)
(*   Optional[x]     a record with a flag `none` beside the value          *)
(*   dict (ordered)  a sequence of [k |-> key, v |-> value] records, in    *)
(*                   insertion order                                       *)
(*   a path          a sequence of directory components; a file path is    *)
(*                   [dir |-> directory, file |-> reference]               *)
(*   a reference     the sequence of the values its file name is made of   *)
(*                   (<<1, 2>> is the file "1-2.csv")                      *)
(*   a regex         the sequence of the character classes of its capture  *)
(*                   groups                                                *)
(*   falsy str/list  the empty sequence (None and "" / [] are both falsy   *)
(*                   in the `if asset.x:` tests of the source)             *)
(***************************************************************************)
EXTENDS Integers, Sequences, FiniteSets, TLC

VARIABLES
    threads,          \* the callers that exist in this run
    default_regex,    \* self._default_regex: [pattern, group_names]
    sorters,          \* self._sorters: ordered dict of sorters, as a sequence
    store,            \* the file system: directory -> listing or unavailable
    cache,            \* self._data_references_cache (Optional)
    pc,               \* per caller: where it stands in its call
    call,             \* per caller: the operation it runs and its argument
    loc,              \* per caller: locals of _refresh_data_references_cache
    result,           \* per caller: what the call returned or raised
    listed,           \* per caller: the call listed (or tried to list) a directory
    entry,            \* per caller: the cache and history flag when the call began
    succeeded,        \* a get_batch_definition_list_from_batch_request has returned a list
    observed,         \* per caller: the cache its read was answered from
    refreshed,        \* a refresh has begun at some time
    unmatched_as_none, \* the mapper reports "no match" as None (else as an empty list)
    dec,              \* a run of ExpectColumnValuesToBeDecreasing on one column
    vc                \* a call of ExpectColumnValueLengthsToEqual.validate_configuration

connector_vars ==
    <<threads, default_regex, sorters, store, cache, pc, call, loc, result,
      listed, entry, succeeded, observed, refreshed, unmatched_as_none>>

expectation_vars == <<dec, vc>>

vars == <<connector_vars, expectation_vars>>

-----------------------------------------------------------------------------
(* Configuration of the connector under analysis *)

Threads == {"t1", "t2"}

EnvName == "env"
ConnName == "conn"
NoneName == "None"

Vals == 1..5

BaseDirectory == <<"base">>
GlobDirective == "*"

Absent == <<>>

DefaultRegex0 == [pattern |-> <<Vals, Vals>>, group_names |-> <<"A", "B">>]

\* assets.keys(), in configuration order
AssetNames == <<"alpha", "beta">>

assets ==
    [alpha |-> [base_directory |-> <<"sub">>, pattern |-> Absent,
                group_names |-> Absent],
     beta  |-> [base_directory |-> Absent, pattern |-> <<Vals>>,
                group_names |-> <<"A">>]]

\* faulty variant: only the first configured asset is reported
FirstDataAssetName == <<AssetNames[1]>>

\* get_available_data_asset_names: list(self.assets.keys())
GetAvailableDataAssetNames == AssetNames

KnownAsset(name) == \E i \in 1..Len(AssetNames) : AssetNames[i] = name

SorterConfigs ==
    { <<>>,
      << [name |-> "A", reverse |-> TRUE] >>,
      << [name |-> "A", reverse |-> TRUE], [name |-> "B", reverse |-> FALSE] >> }

-----------------------------------------------------------------------------
(* Ordered dictionaries *)

HasKey(d, k) == \E i \in 1..Len(d) : d[i].k = k

IndexOfKey(d, k) == CHOOSE i \in 1..Len(d) : d[i].k = k

DictGet(d, k) == d[IndexOfKey(d, k)].v

DictSet(d, k, v) ==
    IF HasKey(d, k) THEN [d EXCEPT ![IndexOfKey(d, k)].v = v]
    ELSE Append(d, [k |-> k, v |-> v])

Min(a, b) == IF a < b THEN a ELSE b

RECURSIVE Flatten(_)
Flatten(ss) == IF ss = <<>> THEN <<>> ELSE Head(ss) \o Flatten(Tail(ss))

-----------------------------------------------------------------------------
(* Values *)

NoCache == [none |-> TRUE, d |-> <<>>]

NoList == [none |-> TRUE, list |-> <<>>]

SomeList(l) == [none |-> FALSE, list |-> l]

BatchDefinition(asset, pd) ==
    [execution_environment_name |-> EnvName,
     data_connector_name |-> ConnName,
     data_asset_name |-> asset,
     partition_definition |-> pd]

\* pathlib.Path(a).joinpath(b) for a relative directory b
JoinDir(a, b) == a \o b

\* pathlib.Path(a).joinpath(ref) for a file name
JoinFile(a, ref) == [dir |-> a, file |-> ref]

-----------------------------------------------------------------------------
(* The regex utilities of data_connector/util.py *)

\* re.match(pattern, reference): the captured groups, or no match
RegexMatches(pattern, ref) ==
    /\ Len(ref) = Len(pattern)
    /\ \A i \in 1..Len(ref) : ref[i] \in pattern[i]

\* dict(zip(group_names, groups))
ZipDict(group_names, groups) ==
    LET n == Min(Len(group_names), Len(groups))
        names == {group_names[i] : i \in 1..n}
    IN  [g \in names |->
            groups[CHOOSE i \in 1..n :
                      /\ group_names[i] = g
                      /\ \A j \in 1..n : group_names[j] = g => j <= i]]

\* map_data_reference_string_to_batch_definition_list_using_regex
MapUsingRegex(asset, ref, pattern, group_names, as_none) ==
    IF RegexMatches(pattern, ref)
    THEN SomeList(<<BatchDefinition(asset, ZipDict(group_names, ref))>>)
    ELSE IF as_none THEN NoList ELSE SomeList(<<>>)

\* map_batch_definition_to_data_reference_string_using_regex: the group
\* values substituted into the path template, in group_names order
ReverseUsingRegex(bd, pattern, group_names) ==
    IF \E i \in 1..Len(group_names) :
          group_names[i] \notin DOMAIN bd.partition_definition
    THEN [err |-> "UnresolvableReferenceError", ref |-> <<>>]
    ELSE [err |-> "ok",
          ref |-> [i \in 1..Len(group_names) |->
                      bd.partition_definition[group_names[i]]]]

-----------------------------------------------------------------------------
(* Configuration resolution *)

\* regex_config = copy.deepcopy(self._default_regex), then the overrides
EffectiveRegex(dr, asset) ==
    IF asset # NoneName /\ KnownAsset(asset)
    THEN [pattern |-> IF assets[asset].pattern # Absent
                      THEN assets[asset].pattern ELSE dr.pattern,
          group_names |-> IF assets[asset].group_names # Absent
                          THEN assets[asset].group_names ELSE dr.group_names]
    ELSE dr

MapDataReferenceToBatchDefinitionList(dr, ref, asset, as_none) ==
    LET rc == EffectiveRegex(dr, asset)
    IN  MapUsingRegex(asset, ref, rc.pattern, rc.group_names, as_none)

MapBatchDefinitionToDataReference(dr, bd) ==
    LET rc == EffectiveRegex(dr, bd.data_asset_name)
    IN  ReverseUsingRegex(bd, rc.pattern, rc.group_names)

\* faulty variant: the base_directory of the asset is ignored
DataAssetPathOfConnector(asset) == BaseDirectory

\* the directory _get_data_reference_list lists for an asset
DataAssetPath(asset) ==
    IF asset # NoneName /\ KnownAsset(asset)
       /\ assets[asset].base_directory # Absent
    THEN JoinDir(BaseDirectory, assets[asset].base_directory)
    ELSE BaseDirectory

\* how a failure of the reverse mapper reaches its caller: as an exception
\* (raises) or as an empty result
ReverseOutcome(r, raises) ==
    IF r.err # "ok" /\ ~raises THEN [err |-> "ok", ref |-> <<>>] ELSE r

\* faulty variant: the reference is joined onto the base directory without
\* being looked at
GenerateBatchSpecParametersUnguarded(dr, bd, raises) ==
    LET r == ReverseOutcome(MapBatchDefinitionToDataReference(dr, bd), raises)
    IN  IF r.err # "ok" THEN [err |-> r.err, path |-> JoinFile(<<>>, <<>>)]
        ELSE [err |-> "ok", path |-> JoinFile(BaseDirectory, r.ref)]

GenerateBatchSpecParameters(dr, bd, raises) ==
    LET r == ReverseOutcome(MapBatchDefinitionToDataReference(dr, bd), raises)
    IN  IF r.err # "ok" THEN [err |-> r.err, path |-> JoinFile(<<>>, <<>>)]
        ELSE IF r.ref = <<>>
        THEN [err |-> "ValueError", path |-> JoinFile(<<>>, <<>>)]
        ELSE [err |-> "ok", path |-> JoinFile(BaseDirectory, r.ref)]

-----------------------------------------------------------------------------
(* Requests *)

NoPartitionRequest ==
    [none |-> TRUE, partition_identifiers |-> <<>>, has_index |-> FALSE,
     index |-> 0]

PartitionRequests ==
    { NoPartitionRequest,
      [none |-> FALSE, partition_identifiers |-> [g \in {"A"} |-> 1],
       has_index |-> FALSE, index |-> 0],
      [none |-> FALSE, partition_identifiers |-> <<>>, has_index |-> TRUE,
       index |-> 0] }

BatchRequest(env, conn, asset, pr) ==
    [execution_environment_name |-> env,
     data_connector_name |-> conn,
     data_asset_name |-> asset,
     partition_request |-> pr]

Requests ==
    { BatchRequest(EnvName, ConnName, a, pr) :
        a \in {NoneName, "alpha", "beta"}, pr \in PartitionRequests }
    \cup { BatchRequest(EnvName, ConnName, "gamma", NoPartitionRequest),
           BatchRequest(EnvName, "other", "alpha", NoPartitionRequest) }

\* the requests two concurrent callers issue
ConcurrentRequests ==
    { BatchRequest(EnvName, ConnName, a, NoPartitionRequest) :
        a \in {NoneName, "alpha"} }

RequestsOf(ts) == IF Cardinality(ts) > 1 THEN ConcurrentRequests ELSE Requests

\* DataConnector._validate_batch_request: the request is for this connector
\* and names, if any, a configured asset
ValidateBatchRequest(req) ==
    IF \/ req.execution_environment_name # EnvName
       \/ req.data_connector_name # ConnName
       \/ (req.data_asset_name # NoneName /\ ~KnownAsset(req.data_asset_name))
    THEN "InvalidRequestError"
    ELSE "ok"

SorterNames(srt) == {srt[i].name : i \in 1..Len(srt)}

SeqRange(s) == {s[i] : i \in 1..Len(s)}

\* faulty variant: the count of the group names is tested first
CheckSortersCountFirst(group_names, srt) ==
    IF Len(group_names) < Len(srt)
    THEN "DataConnectorError: fewer group names than sorters"
    ELSE IF \E n \in SorterNames(srt) : n \notin SeqRange(group_names)
    THEN "DataConnectorError: sort key not in group names"
    ELSE "ok"

\* the two tests of _validate_sorters_configuration, in their order
CheckSorters(group_names, srt) ==
    IF \E n \in SorterNames(srt) : n \notin SeqRange(group_names)
    THEN "DataConnectorError: sort key not in group names"
    ELSE IF Len(group_names) < Len(srt)
    THEN "DataConnectorError: fewer group names than sorters"
    ELSE "ok"

\* _validate_sorters_configuration: regex_config is self._default_regex
\* itself, so the override of group_names is written into the default
ValidateSortersConfiguration(dr, req, srt) ==
    IF Len(srt) > 0
    THEN LET a == req.data_asset_name
             rc == IF a # NoneName /\ KnownAsset(a)
                      /\ assets[a].group_names # Absent
                   THEN [dr EXCEPT !.group_names = assets[a].group_names]
                   ELSE dr
             group_names == rc.group_names
         IN  [regex |-> rc, err |-> CheckSorters(group_names, srt)]
    ELSE [regex |-> dr, err |-> "ok"]

IsConfigurationError(e) ==
    e \in {"DataConnectorError: sort key not in group names",
           "DataConnectorError: fewer group names than sorters"}

-----------------------------------------------------------------------------
(* Matching, partition query, sorting *)

\* exact match of the given identifiers on the keys both mappings have
IdentifiersMatch(ids, pd) ==
    LET common == (DOMAIN ids) \cap (DOMAIN pd)
    IN  (DOMAIN ids) # {} =>
           /\ common # {}
           /\ \A k \in common : ids[k] = pd[k]

\* batch_definition_matches_batch_request
BatchDefinitionMatchesBatchRequest(bd, req) ==
    /\ bd.execution_environment_name = req.execution_environment_name
    /\ bd.data_connector_name = req.data_connector_name
    /\ req.data_asset_name # NoneName =>
          bd.data_asset_name = req.data_asset_name
    /\ ~req.partition_request.none =>
          IdentifiersMatch(req.partition_request.partition_identifiers,
                           bd.partition_definition)

RECURSIVE FilterSeq(_, _)
FilterSeq(s, req) ==
    IF s = <<>> THEN <<>>
    ELSE IF BatchDefinitionMatchesBatchRequest(Head(s), req)
         THEN <<Head(s)>> \o FilterSeq(Tail(s), req)
         ELSE FilterSeq(Tail(s), req)

\* PartitionQuery.select_from_partition_request: by value, then by position
SelectFromPartitionRequest(list, pr) ==
    LET req == BatchRequest(EnvName, ConnName, NoneName, pr)
        byValue == FilterSeq(list, req)
    IN  IF pr.has_index
        THEN IF pr.index + 1 <= Len(byValue)
             THEN <<byValue[pr.index + 1]>> ELSE <<>>
        ELSE byValue

\* x goes before y under this sorter
Precedes(x, y, name, reverse) ==
    IF reverse
    THEN x.partition_definition[name] > y.partition_definition[name]
    ELSE x.partition_definition[name] < y.partition_definition[name]

RECURSIVE InsertSorted(_, _, _, _)
InsertSorted(x, out, name, reverse) ==
    IF out = <<>> THEN <<x>>
    ELSE IF Precedes(x, Head(out), name, reverse) THEN <<x>> \o out
         ELSE <<Head(out)>> \o InsertSorted(x, Tail(out), name, reverse)

\* Sorter.get_sorted_batch_definitions: sorted(list, key, reverse), stable
RECURSIVE GetSortedBatchDefinitions(_, _, _)
GetSortedBatchDefinitions(list, name, reverse) ==
    IF list = <<>> THEN <<>>
    ELSE InsertSorted(list[Len(list)],
                      GetSortedBatchDefinitions(SubSeq(list, 1, Len(list) - 1),
                                                name, reverse),
                      name, reverse)

\* faulty variant: the sorters are applied in declared order
SorterApplicationOrderDeclared(srt) == srt

\* the sorters in the order _sort_batch_definition_list applies them

SorterApplicationOrder(srt) == [i \in 1..Len(srt) |-> srt[Len(srt) + 1 - i]]

RECURSIVE ApplySorters(_, _)
ApplySorters(list, order) ==
    IF order = <<>> THEN list
    ELSE ApplySorters(
             GetSortedBatchDefinitions(list, Head(order).name, Head(order).reverse),
             Tail(order))

SortBatchDefinitionList(list, srt) ==
    ApplySorters(list, SorterApplicationOrder(srt))

\* faulty variant: a sorter finds nothing to take its key from in an empty
\* list and fails
SortKeysPresentInSome(list, srt) ==
    /\ list # <<>>
    /\ \A i \in 1..Len(list) :
          SorterNames(srt) \subseteq DOMAIN list[i].partition_definition

\* a sorter reads its key from every definition it is given
SortKeysPresent(list, srt) ==
    \A i \in 1..Len(list) :
        SorterNames(srt) \subseteq DOMAIN list[i].partition_definition

-----------------------------------------------------------------------------
(* The cache readers *)

SubCacheEntries(c) == Flatten([i \in 1..Len(c.d) |-> c.d[i].v])

RECURSIVE FirstDefinitions(_)
FirstDefinitions(es) ==
    IF es = <<>> THEN <<>>
    ELSE IF Head(es).v.none THEN FirstDefinitions(Tail(es))
         ELSE <<Head(es).v.list[1]>> \o FirstDefinitions(Tail(es))

\* batch_definitions[0] of an empty list raises IndexError
HasEmptyList(c) ==
    \E i \in 1..Len(SubCacheEntries(c)) :
        /\ ~SubCacheEntries(c)[i].v.none
        /\ SubCacheEntries(c)[i].v.list = <<>>

NoResult ==
    [err |-> "none", bds |-> <<>>, n |-> 0, refs |-> <<>>,
     path |-> JoinFile(<<>>, <<>>)]

Raise(e) == [NoResult EXCEPT !.err = e]

\* faulty variant: the first definitions are not filtered by the request
CandidatesUnfiltered(c, req) == FirstDefinitions(SubCacheEntries(c))

\* the first definition of every mapped reference that matches the request
Candidates(c, req) == FilterSeq(FirstDefinitions(SubCacheEntries(c)), req)

\* faulty variant: the candidates are sorted before the partition query
\* selects from them
SelectBatchDefinitionsSortedFirst(c, req, srt) ==
    IF HasEmptyList(c) THEN Raise("IndexError")
    ELSE LET candidates == Candidates(c, req)
         IN  IF Len(srt) > 0 /\ ~SortKeysPresent(candidates, srt)
             THEN Raise("KeyError")
             ELSE LET sorted == IF Len(srt) > 0
                                THEN SortBatchDefinitionList(candidates, srt)
                                ELSE candidates
                  IN  [NoResult EXCEPT
                          !.err = "ok",
                          !.bds = IF req.partition_request.none THEN sorted
                                  ELSE SelectFromPartitionRequest(
                                           sorted, req.partition_request)]

\* get_batch_definition_list_from_batch_request, from the cache check on
SelectBatchDefinitions(c, req, srt) ==
    IF HasEmptyList(c) THEN Raise("IndexError")
    ELSE LET candidates == Candidates(c, req)
             queried == IF req.partition_request.none THEN candidates
                        ELSE SelectFromPartitionRequest(candidates,
                                                        req.partition_request)
         IN  IF Len(srt) > 0
             THEN IF SortKeysPresent(queried, srt)
                  THEN [NoResult EXCEPT !.err = "ok",
                                        !.bds = SortBatchDefinitionList(queried, srt)]
                  ELSE Raise("KeyError")
             ELSE [NoResult EXCEPT !.err = "ok", !.bds = queried]

\* faulty variant: an unpopulated cache counts as an empty one
GetDataReferenceListCountLenient(c) ==
    IF c.none THEN [NoResult EXCEPT !.err = "ok", !.n = 0]
    ELSE [NoResult EXCEPT !.err = "ok", !.n = Len(SubCacheEntries(c))]

\* faulty variant: a reference is counted once however many assets list it
GetDataReferenceListCountDistinct(c) ==
    IF c.none THEN Raise("NotInitializedError")
    ELSE [NoResult EXCEPT
             !.err = "ok",
             !.n = Cardinality({SubCacheEntries(c)[i].k :
                                   i \in 1..Len(SubCacheEntries(c))})]

GetDataReferenceListCount(c) ==
    IF c.none THEN Raise("NotInitializedError")
    ELSE [NoResult EXCEPT !.err = "ok", !.n = Len(SubCacheEntries(c))]

RECURSIVE NoneKeys(_)
NoneKeys(es) ==
    IF es = <<>> THEN <<>>
    ELSE IF Head(es).v.none THEN <<Head(es).k>> \o NoneKeys(Tail(es))
         ELSE NoneKeys(Tail(es))

GetUnmatchedDataReferences(c) ==
    IF c.none THEN Raise("NotInitializedError")
    ELSE [NoResult EXCEPT !.err = "ok", !.refs = NoneKeys(SubCacheEntries(c))]

BuildBatchSpec(dr, bd, raises) ==
    LET p == GenerateBatchSpecParameters(dr, bd, raises)
    IN  IF p.err = "ok" THEN [NoResult EXCEPT !.err = "ok", !.path = p.path]
        ELSE Raise(p.err)

-----------------------------------------------------------------------------
(* The file system *)

Unavailable == [ok |-> FALSE, files |-> <<>>]

Listing(fs) == [ok |-> TRUE, files |-> fs]

Directories == {BaseDirectory, JoinDir(BaseDirectory, <<"sub">>)}

DirListings ==
    { <<>>,
      << <<1, 2>>, <<3>> >>,
      << <<2, 5>>, <<1, 2>> >> }

DirStates == {Unavailable} \cup {Listing(fs) : fs \in DirListings}

\* get_filesystem_one_level_directory_glob_path_list: the children of the
\* directory, relative to it
GetDataReferenceList(st, asset) == st[DataAssetPath(asset)]

\* the arguments _get_data_reference_list passes to it
ListingRequest(asset) == [dir |-> DataAssetPath(asset), glob |-> GlobDirective]

NoListing == [dir |-> <<>>, glob |-> ""]

-----------------------------------------------------------------------------
(* ExpectColumnValuesToBeDecreasing                                        *)
(*                                                                         *)
(* A column is a sequence of cells, a cell null or an integer. The series  *)
(* a metric works on is the column without its nulls, each value with the  *)
(* position (from 0) it has in the column.                                 *)

Null == [null |-> TRUE, v |-> 0]

Cell(v) == [null |-> FALSE, v |-> v]

\* the integers of a column are two's complement numbers of IntBits bits
\* (the int64 of a pandas column, scaled)
IntBits == 8

MinInt == -(2 ^ (IntBits - 1))

MaxInt == 2 ^ (IntBits - 1) - 1

\* what integer arithmetic of that width gives for the exact result x
Wrap(x) == ((x - MinInt) % (2 ^ IntBits)) + MinInt

MaxColumn == 3

CellValues == {MinInt, -1, 0, 1, MaxInt}

Cells == {Null} \cup {Cell(v) : v \in CellValues}

Columns == UNION {[1..n -> Cells] : n \in 0..MaxColumn}

\* filter_column_isnull = True
RECURSIVE NonNullFrom(_, _)
NonNullFrom(column, i) ==
    IF i > Len(column) THEN <<>>
    ELSE (IF column[i].null THEN <<>> ELSE <<[idx |-> i - 1, v |-> column[i].v]>>)
         \o NonNullFrom(column, i + 1)

NonNull(column) == NonNullFrom(column, 1)

\* the values of "strictly": None (the default), True, False
Strictly == {"None", "True", "False"}

\* if strictly:
Truthy(strictly) == strictly = "True"

\* series.diff() with the null of the first element replaced by -1
SeriesDiff(series, i) ==
    IF i = 1 THEN -1 ELSE Wrap(series[i].v - series[i - 1].v)

\* _pandas_column_values_decreasing: one flag per element of the series
PandasColumnValuesDecreasing(series, strictly) ==
    [i \in 1..Len(series) |->
        IF Truthy(strictly) THEN SeriesDiff(series, i) < 0
        ELSE SeriesDiff(series, i) <= 0]

NoInt == [none |-> TRUE, n |-> 0]

SomeInt(n) == [none |-> FALSE, n |-> n]

RECURSIVE Unexpected(_, _, _)
\* the elements of the series whose flag is False
Unexpected(series, flags, i) ==
    IF i > Len(series) THEN <<>>
    ELSE (IF flags[i] THEN <<>> ELSE <<series[i]>>)
         \o Unexpected(series, flags, i + 1)

\* which metrics the validation is handed: the two it declares as
\* dependencies, or these and the others of its map metric
\* column_values.decreasing
Provisions == {"declared", "decreasing"}

\* the metrics of a column, by name
MetricVals(column, flags, provided) ==
    LET series == NonNull(column)
        bad == Unexpected(series, flags, 1)
        declared ==
            [k \in {"column_values.decreasing.count", "column_values.nonnull.count"}
                |-> IF k = "column_values.nonnull.count"
                    THEN SomeInt(Len(series))
                    ELSE SomeInt(Len(series) - Len(bad))]
        family ==
            [k \in {"column_values.count",
                    "column_values.decreasing.unexpected_values",
                    "column_values.decreasing.unexpected_index_list"}
                |-> IF k = "column_values.count" THEN SomeInt(Len(column))
                    ELSE IF k = "column_values.decreasing.unexpected_values"
                    THEN SomeList([i \in 1..Len(bad) |-> bad[i].v])
                    ELSE SomeList([i \in 1..Len(bad) |-> bad[i].idx])]
    IN  IF provided = "declared" THEN declared ELSE declared @@ family

\* metric_vals.get(key), for a count and for a list
GetInt(mv, k) == IF k \in DOMAIN mv THEN mv[k] ELSE NoInt

GetList(mv, k) == IF k \in DOMAIN mv THEN mv[k] ELSE NoList

\* the values of "mostly", as fractions
Mostlys == { [num |-> 1, den |-> 1], [num |-> 1, den |-> 2] }

NoValidation ==
    [err |-> "none", success |-> FALSE, element_count |-> NoInt,
     nonnull_count |-> NoInt, unexpected_count |-> NoInt,
     unexpected_list |-> NoList, unexpected_index_list |-> NoList]

\* _validates: the arguments it hands to _format_map_output, or the error
\* their evaluation raises
Validates(mv, mostly) ==
    LET decreasing == GetInt(mv, "column_values.decreasing.count")
        nonnull == GetInt(mv, "column_values.nonnull.count")
    IN  IF nonnull.n = 0
        THEN [NoValidation EXCEPT !.err = "ZeroDivisionError"]
        ELSE [err |-> "ok",
              success |-> decreasing.n * mostly.den >= mostly.num * nonnull.n,
              element_count |-> GetInt(mv, "column_values.count"),
              nonnull_count |-> nonnull,
              unexpected_count |-> SomeInt(nonnull.n - decreasing.n),
              unexpected_list |->
                  GetList(mv, "column_values.decreasing.unexpected_values"),
              unexpected_index_list |->
                  GetList(mv, "column_values.increasing.unexpected_index_list")]

NoDec ==
    [pc |-> "off", column |-> <<>>, strictly |-> "None",
     mostly |-> [num |-> 1, den |-> 1], provided |-> "declared",
     flags |-> <<>>, result |-> NoValidation]

-----------------------------------------------------------------------------
(* ExpectColumnValueLengthsToEqual.validate_configuration                  *)

\* values a configuration may give for "value", by Python type
KwargValues ==
    { [type |-> "int", repr |-> "0"], [type |-> "int", repr |-> "5"],
      [type |-> "float", repr |-> "2.5"], [type |-> "bool", repr |-> "True"],
      [type |-> "NoneType", repr |-> "None"], [type |-> "str", repr |-> "5"],
      [type |-> "list", repr |-> "[5]"] }

NoValue == [type |-> "NoneType", repr |-> "None"]

\* configuration.kwargs, as far as "value" goes
Kwargs ==
    { [has_value |-> FALSE, value |-> NoValue] }
    \cup { [has_value |-> TRUE, value |-> v] : v \in KwargValues }

NoConfiguration == [none |-> TRUE, kwargs |-> [has_value |-> FALSE, value |-> NoValue]]

\* the argument of validate_configuration: None or a configuration
Configurations ==
    {NoConfiguration} \cup { [none |-> FALSE, kwargs |-> k] : k \in Kwargs }

\* isinstance(value, (float, int)); bool is a subclass of int
IsFloatOrInt(v) == v.type \in {"float", "int", "bool"}

\* validate_configuration: what it returns or raises
ValidateConfiguration(configuration, own) ==
    LET kwargs == IF configuration.none THEN own ELSE configuration.kwargs
    IN  IF ~kwargs.has_value
        THEN "InvalidExpectationConfigurationError: The length parameter 'value' is required"
        ELSE IF ~IsFloatOrInt(kwargs.value)
        THEN "InvalidExpectationConfigurationError: given value must be numerical"
        ELSE "True"

NoVc ==
    [pc |-> "off", configuration |-> NoConfiguration,
     own |-> [has_value |-> FALSE, value |-> NoValue], outcome |-> "none"]

ExpectationsAtRest == dec = NoDec /\ vc = NoVc

-----------------------------------------------------------------------------
(* State *)

NoCall == [op |-> "none",
           req |-> BatchRequest(EnvName, ConnName, NoneName, NoPartitionRequest),
           bd |-> BatchDefinition(NoneName, <<>>)]

\* listing: the last listing this call asked of the store; seen: what the
\* store answered for each asset so far
NoLoc == [ai |-> 0, refs |-> <<>>, ri |-> 0, listing |-> NoListing, seen |-> <<>>]

\* after_refresh: the call before this one was a refresh that returned normally
NoEntry == [cache |-> NoCache, succeeded |-> FALSE, after_refresh |-> FALSE]

NotObserved == [seen |-> FALSE, cache |-> NoCache]

Observed(c) == [seen |-> TRUE, cache |-> c]

InitCommon ==
    /\ default_regex = DefaultRegex0
    /\ sorters \in SorterConfigs
    /\ cache = NoCache
    /\ pc = [t \in Threads |-> "idle"]
    /\ call = [t \in Threads |-> NoCall]
    /\ loc = [t \in Threads |-> NoLoc]
    /\ result = [t \in Threads |-> NoResult]
    /\ listed = [t \in Threads |-> FALSE]
    /\ entry = [t \in Threads |-> NoEntry]
    /\ succeeded = FALSE
    /\ observed = [t \in Threads |-> NotObserved]
    /\ refreshed = FALSE

Init ==
    /\ InitCommon
    /\ ExpectationsAtRest
    /\ store \in [Directories -> {Listing(fs) : fs \in DirListings}]
    /\ threads = {"t1"}
    /\ unmatched_as_none = TRUE

Begin(t, c) ==
    /\ t \in threads
    /\ pc[t] = "idle"
    /\ call' = [call EXCEPT ![t] = c]
    /\ entry' = [entry EXCEPT ![t] = [cache |-> cache, succeeded |-> succeeded,
                                     after_refresh |-> entry[t].after_refresh]]
    /\ listed' = [listed EXCEPT ![t] = FALSE]
    /\ UNCHANGED <<threads, sorters, store, refreshed, unmatched_as_none,
                   expectation_vars>>

Finish(t, r) ==
    /\ pc' = [pc EXCEPT ![t] = "done"]
    /\ result' = [result EXCEPT ![t] = r]

-----------------------------------------------------------------------------
(* _refresh_data_references_cache, statement by statement *)

\* faulty variant: the refresh starts by dropping the cache
EmptyCacheDropped == [none |-> TRUE, d |-> <<>>]

\* the empty dict a refresh starts from
EmptyCache == [none |-> FALSE, d |-> <<>>]

\* self._data_references_cache = {}
RefreshInit(t) ==
    /\ t \in threads
    /\ pc[t] = "r_init"
    /\ cache' = EmptyCache
    /\ loc' = [loc EXCEPT ![t] = [NoLoc EXCEPT !.ai = 1]]
    /\ pc' = [pc EXCEPT ![t] = "r_asset"]
    /\ refreshed' = TRUE
    /\ UNCHANGED <<threads, default_regex, sorters, store, call, result, listed,
                   entry, succeeded, observed, unmatched_as_none,
                   expectation_vars>>

\* what the caller does once the refresh has returned
AfterRefresh(c) == IF c.op = "get_batch" THEN "select" ELSE "done"

\* the head of the loop over the assets: cache[asset] = {} and the listing
RefreshAsset(t) ==
    /\ t \in threads
    /\ pc[t] = "r_asset"
    /\ IF loc[t].ai > Len(GetAvailableDataAssetNames)
       THEN /\ pc' = [pc EXCEPT ![t] = AfterRefresh(call[t])]
            /\ result' = [result EXCEPT ![t] = [NoResult EXCEPT !.err = "ok"]]
            /\ UNCHANGED <<cache, loc, listed>>
       ELSE LET asset == GetAvailableDataAssetNames[loc[t].ai]
                l == GetDataReferenceList(store, asset)
            IN  /\ cache' = [cache EXCEPT !.d = DictSet(cache.d, asset, <<>>)]
                /\ listed' = [listed EXCEPT ![t] = TRUE]
                /\ IF l.ok
                   THEN /\ loc' = [loc EXCEPT ![t].refs = l.files, ![t].ri = 1,
                                                ![t].listing = ListingRequest(asset),
                                                ![t].seen = Append(@, l.files)]
                        /\ pc' = [pc EXCEPT ![t] = "r_ref"]
                        /\ UNCHANGED result
                   ELSE /\ Finish(t, Raise("StoreUnavailableError"))
                        /\ UNCHANGED loc
    /\ UNCHANGED <<threads, default_regex, sorters, store, call, entry, succeeded,
                   observed, refreshed, unmatched_as_none,
                   expectation_vars>>

\* faulty variant: regex_config is self._default_regex itself, so the
\* overrides of the asset are written into the default
DefaultRegexAliased(dr, asset) == EffectiveRegex(dr, asset)

\* self._default_regex after a reference of the asset has been mapped: the
\* overrides go into a deep copy, the default stays as it was
DefaultRegexAfterMapping(dr, asset) == dr

\* the body of the loop over the references of one asset
RefreshRef(t) ==
    /\ t \in threads
    /\ pc[t] = "r_ref"
    /\ IF loc[t].ri > Len(loc[t].refs)
       THEN /\ loc' = [loc EXCEPT ![t].ai = @ + 1, ![t].refs = <<>>, ![t].ri = 0]
            /\ pc' = [pc EXCEPT ![t] = "r_asset"]
            /\ UNCHANGED <<cache, result, default_regex>>
       ELSE LET asset == GetAvailableDataAssetNames[loc[t].ai]
                ref == loc[t].refs[loc[t].ri]
                mapped == MapDataReferenceToBatchDefinitionList(
                              default_regex, ref, asset, unmatched_as_none)
            IN  /\ default_regex' = DefaultRegexAfterMapping(default_regex, asset)
                /\ IF HasKey(cache.d, asset)
                   THEN /\ cache' = [cache EXCEPT !.d =
                               DictSet(cache.d, asset,
                                       DictSet(DictGet(cache.d, asset), ref, mapped))]
                        /\ loc' = [loc EXCEPT ![t].ri = @ + 1]
                        /\ UNCHANGED <<pc, result>>
                   ELSE /\ Finish(t, Raise("KeyError"))
                        /\ UNCHANGED <<cache, loc>>
    /\ UNCHANGED <<threads, sorters, store, call, listed, entry,
                   succeeded, observed, refreshed, unmatched_as_none,
                   expectation_vars>>

\* an explicit call of _refresh_data_references_cache
Refresh(t) ==
    /\ Begin(t, [NoCall EXCEPT !.op = "refresh"])
    /\ pc' = [pc EXCEPT ![t] = "r_init"]
    /\ UNCHANGED <<default_regex, cache, loc, result, succeeded, observed>>

-----------------------------------------------------------------------------
(* The public operations *)

\* faulty variant: a cache without references counts as not populated
NeedsRefreshWhenEmpty(c) == c.none \/ SubCacheEntries(c) = <<>>

\* faulty variant: every call refreshes
NeedsRefreshAlways(c) == TRUE

\* if self._data_references_cache is None
NeedsRefresh(c) == c.none

\* faulty variant: the cache is populated before the request is validated
EntryPcRefreshFirst(v, c) ==
    IF NeedsRefresh(c) THEN "r_init"
    ELSE IF v # "ok" THEN "done" ELSE "select"

\* where get_batch_definition_list_from_batch_request goes after its two
\* validations returned verdict v
EntryPc(v, c) ==
    IF v # "ok" THEN "done"
    ELSE IF NeedsRefresh(c) THEN "r_init" ELSE "select"

\* get_batch_definition_list_from_batch_request up to the cache check
GetBatchDefinitionList(t, req) ==
    /\ Begin(t, [NoCall EXCEPT !.op = "get_batch", !.req = req])
    /\ LET v1 == ValidateBatchRequest(req)
           v2 == ValidateSortersConfiguration(default_regex, req, sorters)
           v == IF v1 # "ok" THEN v1 ELSE v2.err
       IN  /\ default_regex' = IF v1 # "ok" THEN default_regex ELSE v2.regex
           /\ pc' = [pc EXCEPT ![t] = EntryPc(v, cache)]
           /\ result' = [result EXCEPT ![t] =
                            IF v # "ok" THEN Raise(v) ELSE NoResult]
    /\ UNCHANGED <<cache, loc, succeeded, observed>>

\* the rest of it: filter, partition query, sorters. The cache is read in
\* one step, the most favourable reading of the unsynchronised iteration.
Select(t) ==
    /\ t \in threads
    /\ pc[t] = "select"
    /\ LET r == SelectBatchDefinitions(cache, call[t].req, sorters)
       IN  /\ Finish(t, r)
           /\ succeeded' = (succeeded \/ r.err = "ok")
    /\ observed' = [observed EXCEPT ![t] = Observed(cache)]
    /\ UNCHANGED <<threads, default_regex, sorters, store, cache, call, loc,
                   listed, entry, refreshed, unmatched_as_none,
                   expectation_vars>>

DataReferenceListCount(t) ==
    /\ Begin(t, [NoCall EXCEPT !.op = "count"])
    /\ Finish(t, GetDataReferenceListCount(cache))
    /\ observed' = [observed EXCEPT ![t] = Observed(cache)]
    /\ UNCHANGED <<default_regex, cache, loc, succeeded>>

UnmatchedDataReferences(t) ==
    /\ Begin(t, [NoCall EXCEPT !.op = "unmatched"])
    /\ Finish(t, GetUnmatchedDataReferences(cache))
    /\ observed' = [observed EXCEPT ![t] = Observed(cache)]
    /\ UNCHANGED <<default_regex, cache, loc, succeeded>>

\* definitions no refresh of this configuration produces
ExtraDefinitions == { BatchDefinition("alpha", [g \in {"A"} |-> 1]) }

CachedDefinitions(c) ==
    UNION {SeqRange(SubCacheEntries(c)[i].v.list) :
              i \in 1..Len(SubCacheEntries(c))}

BuildSpec(t, bd, raises) ==
    /\ Begin(t, [NoCall EXCEPT !.op = "build_batch_spec", !.bd = bd])
    /\ Finish(t, BuildBatchSpec(default_regex, bd, raises))
    /\ UNCHANGED <<default_regex, cache, loc, succeeded, observed>>

\* the call returns (or its exception reaches the caller)
Return(t) ==
    /\ t \in threads
    /\ pc[t] = "done"
    /\ pc' = [pc EXCEPT ![t] = "idle"]
    /\ call' = [call EXCEPT ![t] = NoCall]
    /\ loc' = [loc EXCEPT ![t] = NoLoc]
    /\ result' = [result EXCEPT ![t] = NoResult]
    /\ listed' = [listed EXCEPT ![t] = FALSE]
    /\ entry' = [entry EXCEPT ![t] =
                   [NoEntry EXCEPT !.after_refresh =
                       (call[t].op = "refresh" /\ result[t].err = "ok")]]
    /\ observed' = [observed EXCEPT ![t] = NotObserved]
    /\ UNCHANGED <<threads, default_regex, sorters, store, cache, succeeded,
                   refreshed, unmatched_as_none,
                   expectation_vars>>

\* the file system changes under the connector
StoreChange(d, v) ==
    /\ store[d] # v
    /\ store' = [store EXCEPT ![d] = v]
    /\ UNCHANGED <<threads, default_regex, sorters, cache, pc, call, loc, result,
                   listed, entry, succeeded, observed, refreshed,
                   unmatched_as_none,
                   expectation_vars>>

Calls ==
    \/ \E t \in Threads, req \in RequestsOf(threads) :
          GetBatchDefinitionList(t, req)
    \/ \E t \in Threads : Refresh(t)
    \/ \E t \in Threads : RefreshInit(t)
    \/ \E t \in Threads : RefreshAsset(t)
    \/ \E t \in Threads : RefreshRef(t)
    \/ \E t \in Threads : Select(t)
    \/ \E t \in Threads : DataReferenceListCount(t)
    \/ \E t \in Threads : UnmatchedDataReferences(t)
    \/ \E t \in Threads, bd \in CachedDefinitions(cache) \cup ExtraDefinitions,
          raises \in BOOLEAN :
          BuildSpec(t, bd, raises)
    \/ \E t \in Threads : Return(t)

Next ==
    \/ Calls
    \/ \E d \in Directories, v \in DirStates : StoreChange(d, v)

\* one caller, a file system that changes and may fail
Spec == Init /\ [][Next]_vars

\* two callers on one connector, a file system that stays as it is
StoreConc ==
    [d \in Directories |->
        IF d = BaseDirectory THEN Listing(<< <<3>> >>)
        ELSE Listing(<< <<1, 2>> >>)]

InitConc ==
    /\ InitCommon
    /\ ExpectationsAtRest
    /\ threads = Threads
    /\ sorters = <<>>
    /\ store = StoreConc
    /\ unmatched_as_none = TRUE

SpecConc == InitConc /\ [][Calls]_vars

\* one caller, a mapper that reports "no match" as an empty list
InitEmptyList ==
    /\ InitCommon
    /\ ExpectationsAtRest
    /\ store \in [Directories -> {Listing(fs) : fs \in DirListings}]
    /\ threads = {"t1"}
    /\ unmatched_as_none = FALSE

SpecEmptyList == InitEmptyList /\ [][Next]_vars

\* one caller, an unchanging file system whose directory of asset alpha
\* holds any files of SortReferences, in any order
MaxLen == 3

SortReferences == { <<1, 2>>, <<1, 1>>, <<2, 5>>, <<2, 1>> }

SortListings ==
    { fs \in UNION {[1..n -> SortReferences] : n \in 0..MaxLen} :
        \A i, j \in 1..Len(fs) : fs[i] = fs[j] => i = j }

InitSort ==
    /\ InitCommon
    /\ ExpectationsAtRest
    /\ threads = {"t1"}
    /\ unmatched_as_none = TRUE
    /\ \E fs \in SortListings :
          store = [d \in Directories |->
                     IF d = BaseDirectory THEN Listing(<< <<3>> >>)
                     ELSE Listing(fs)]

SpecSort == InitSort /\ [][Calls]_vars

-----------------------------------------------------------------------------
(* The expectations, run beside a connector nobody calls *)

ConnectorAtRest ==
    /\ InitCommon
    /\ sorters = <<>>
    /\ threads = {"t1"}
    /\ store = StoreConc
    /\ unmatched_as_none = TRUE

\* the metric column_values.decreasing is computed for the column
ComputeDecreasing ==
    /\ dec.pc = "start"
    /\ dec' = [dec EXCEPT
                  !.pc = "metric",
                  !.flags = PandasColumnValuesDecreasing(NonNull(dec.column),
                                                         dec.strictly)]
    /\ UNCHANGED <<connector_vars, vc>>

\* _validates is called with the metrics of the column
ValidateDecreasing ==
    /\ dec.pc = "metric"
    /\ dec' = [dec EXCEPT
                  !.pc = "validated",
                  !.result = Validates(MetricVals(dec.column, dec.flags, dec.provided),
                                       dec.mostly)]
    /\ UNCHANGED <<connector_vars, vc>>

InitDecreasing ==
    /\ ConnectorAtRest
    /\ vc = NoVc
    /\ \E column \in Columns, strictly \in Strictly, mostly \in Mostlys,
          provided \in Provisions :
          dec = [NoDec EXCEPT !.pc = "start", !.column = column,
                              !.strictly = strictly, !.mostly = mostly,
                              !.provided = provided]

NextDecreasing == ComputeDecreasing \/ ValidateDecreasing

\* one column, its metric, its validation
SpecDecreasing == InitDecreasing /\ [][NextDecreasing]_vars

\* validate_configuration is called
ValidateConfigurationCall ==
    /\ vc.pc = "start"
    /\ vc' = [vc EXCEPT
                 !.pc = "done",
                 !.outcome = ValidateConfiguration(vc.configuration, vc.own)]
    /\ UNCHANGED <<connector_vars, dec>>

InitLengths ==
    /\ ConnectorAtRest
    /\ dec = NoDec
    /\ \E configuration \in Configurations, own \in Kwargs :
          vc = [NoVc EXCEPT !.pc = "start", !.configuration = configuration,
                            !.own = own]

NextLengths == ValidateConfigurationCall

\* one call of validate_configuration on an expectation whose own
\* configuration is `own`
SpecLengths == InitLengths /\ [][NextLengths]_vars

-----------------------------------------------------------------------------
(* A refresh run from start to end without interruption *)

RECURSIVE RefreshedSubCache(_, _, _, _)
RefreshedSubCache(refs, dr, asset, as_none) ==
    IF refs = <<>> THEN <<>>
    ELSE DictSet(RefreshedSubCache(SubSeq(refs, 1, Len(refs) - 1), dr, asset,
                                   as_none),
                 refs[Len(refs)],
                 MapDataReferenceToBatchDefinitionList(dr, refs[Len(refs)], asset,
                                                       as_none))

RefreshedCache(st, dr, as_none) ==
    [none |-> FALSE,
     d |-> [i \in 1..Len(GetAvailableDataAssetNames) |->
              [k |-> GetAvailableDataAssetNames[i],
               v |-> RefreshedSubCache(
                         GetDataReferenceList(st, GetAvailableDataAssetNames[i]).files,
                         dr, GetAvailableDataAssetNames[i], as_none)]]]

\* the references cached for an asset, in cache order
CachedReferences(c, asset) ==
    IF HasKey(c.d, asset)
    THEN [i \in 1..Len(DictGet(c.d, asset)) |-> DictGet(c.d, asset)[i].k]
    ELSE <<>>

Refreshing(t) == pc[t] \in {"r_init", "r_asset", "r_ref"}

Returned(t, op) == pc[t] = "done" /\ call[t].op = op

-----------------------------------------------------------------------------
(* Claims *)

\* C1: a read issued while a refresh runs is answered either from the
\* complete cache of before the refresh (here: the unpopulated cache) or
\* from the complete cache the refresh builds, never from an empty or
\* partially populated one.
C1_RefreshAllOrNothing ==
    \A t \in Threads :
        observed[t].seen =>
            observed[t].cache \in
                {NoCache, RefreshedCache(store, default_regex, unmatched_as_none)}

\* C2: when a listing fails during a refresh, the error reaches the caller
\* and the cache is the one that existed when the call began.
C2_FailedRefreshKeepsCache ==
    \A t \in Threads :
        (pc[t] = "done" /\ result[t].err = "StoreUnavailableError") =>
            cache = entry[t].cache

\* C3: get_batch_definition_list_from_batch_request refreshes (and lists
\* the store) only in a call that began with the cache never populated;
\* no call that began after a successful one refreshes or lists.
C3_RefreshOnFirstUseOnly ==
    \A t \in Threads :
        (call[t].op = "get_batch" /\ (listed[t] \/ Refreshing(t))) =>
            (entry[t].cache.none /\ ~entry[t].succeeded)

\* C3 witness: a call after a successful one has answered from the cache
\* without listing, although the store no longer holds what is cached.
C3_Witness ==
    \E t \in Threads, a \in SeqRange(AssetNames) :
        /\ Returned(t, "get_batch")
        /\ result[t].err = "ok"
        /\ entry[t].succeeded
        /\ ~listed[t]
        /\ store[DataAssetPath(a)].ok
        /\ store[DataAssetPath(a)].files # CachedReferences(cache, a)

IsRejection(e) == e = "InvalidRequestError" \/ IsConfigurationError(e)

\* C4: a request that get_batch_definition_list_from_batch_request rejects
\* (malformed, or sorters that do not fit the group names) has caused no
\* listing and has left the cache as it was.
C4_ValidationBeforeCache ==
    \A t \in Threads :
        IsRejection(result[t].err) =>
            /\ pc[t] = "done"
            /\ ~listed[t]
            /\ ~Refreshing(t)
            /\ cache = entry[t].cache

\* C4 witness: a request has been rejected for its sorters on a connector
\* that has never refreshed, and the cache is still unpopulated.
C4_Witness ==
    /\ cache.none
    /\ ~refreshed
    /\ \E t \in Threads :
          /\ Returned(t, "get_batch")
          /\ IsConfigurationError(result[t].err)

\* the group names the configuration gives an asset
ConfiguredGroupNames(asset) == EffectiveRegex(DefaultRegex0, asset).group_names

\* C5: with sorters configured, a well-formed request fails with a
\* configuration error exactly when a sorter name is missing from the
\* group names the configuration gives the requested asset, or these are
\* fewer than the sorters; earlier requests play no part.
C5_SorterValidation ==
    \A t \in Threads :
        (/\ Returned(t, "get_batch")
         /\ Len(sorters) > 0
         /\ ValidateBatchRequest(call[t].req) = "ok") =>
            (IsConfigurationError(result[t].err) <=>
                LET gn == ConfiguredGroupNames(call[t].req.data_asset_name)
                IN  \/ \E n \in SorterNames(sorters) : n \notin SeqRange(gn)
                    \/ Len(gn) < Len(sorters))

\* x comes before y in the lexicographic order of the declared sorters
LexBefore(x, y, srt) ==
    \E i \in 1..Len(srt) :
        /\ \A j \in 1..(i - 1) :
              x.partition_definition[srt[j].name] = y.partition_definition[srt[j].name]
        /\ Precedes(x, y, srt[i].name, srt[i].reverse)

\* the place of list[p] in that order, ties kept in list order
Rank(list, p, srt) ==
    1 + Cardinality({q \in 1..Len(list) :
                        \/ LexBefore(list[q], list[p], srt)
                        \/ /\ ~LexBefore(list[p], list[q], srt)
                           /\ q < p})

\* what the call would have returned with no sorters configured
Unsorted(t) == SelectBatchDefinitions(cache, call[t].req, <<>>).bds

\* C6: the reverse-order stable passes leave the list in the lexicographic
\* order of the declared sorters: the first declared sorter decides, each
\* later one only breaks the ties of the earlier ones, and records equal
\* on all of them keep their order.
C6_SorterPrecedence ==
    \A t \in Threads :
        (Returned(t, "get_batch") /\ result[t].err = "ok" /\ Len(sorters) > 0) =>
            /\ Len(result[t].bds) = Len(Unsorted(t))
            /\ \A p \in 1..Len(Unsorted(t)) :
                  result[t].bds[Rank(Unsorted(t), p, sorters)] = Unsorted(t)[p]

\* C6 witness: sorters [A desc, B asc] on [{A:1,B:2},{A:1,B:1},{A:2,B:5}]
\* have returned [{A:2,B:5},{A:1,B:1},{A:1,B:2}].
C6_Witness ==
    \E t \in Threads :
        /\ Returned(t, "get_batch")
        /\ result[t].err = "ok"
        /\ sorters = << [name |-> "A", reverse |-> TRUE],
                        [name |-> "B", reverse |-> FALSE] >>
        /\ Unsorted(t) = << BatchDefinition("alpha", [A |-> 1, B |-> 2]),
                            BatchDefinition("alpha", [A |-> 1, B |-> 1]),
                            BatchDefinition("alpha", [A |-> 2, B |-> 5]) >>
        /\ result[t].bds = << BatchDefinition("alpha", [A |-> 2, B |-> 5]),
                              BatchDefinition("alpha", [A |-> 1, B |-> 1]),
                              BatchDefinition("alpha", [A |-> 1, B |-> 2]) >>

RECURSIVE MappedFirsts(_)
MappedFirsts(es) ==
    IF es = <<>> THEN <<>>
    ELSE (IF ~Head(es).v.none /\ Len(Head(es).v.list) > 0
          THEN <<Head(es).v.list[1]>> ELSE <<>>)
         \o MappedFirsts(Tail(es))

\* the first definitions the cache holds for the asset a request names
ExpectedFirsts(c, req) ==
    IF req.data_asset_name = NoneName THEN MappedFirsts(SubCacheEntries(c))
    ELSE IF HasKey(c.d, req.data_asset_name)
    THEN MappedFirsts(DictGet(c.d, req.data_asset_name))
    ELSE <<>>

\* C7: with no partition query and no sorters the call returns, in cache
\* order, the first definition of every mapped reference cached under the
\* requested asset (under any asset when none is named), and nothing from
\* the references cached under other assets; it fails only by rejection
\* or by a failed listing.
C7_FirstDefinitionPerReference ==
    \A t \in Threads :
        (/\ Returned(t, "get_batch")
         /\ call[t].req.partition_request.none
         /\ sorters = <<>>) =>
            /\ result[t].err \in {"ok", "InvalidRequestError", "StoreUnavailableError"}
            /\ result[t].err = "ok" =>
                  result[t].bds = ExpectedFirsts(cache, call[t].req)

\* C7 witness: a request for alpha has returned alpha's two definitions
\* while the cache also holds a definition of beta.
C7_Witness ==
    \E t \in Threads :
        /\ Returned(t, "get_batch")
        /\ call[t].req.partition_request.none
        /\ sorters = <<>>
        /\ call[t].req.data_asset_name = "alpha"
        /\ result[t].err = "ok"
        /\ Len(result[t].bds) = 2
        /\ \E bd \in CachedDefinitions(cache) : bd.data_asset_name = "beta"

RECURSIVE UnmappedKeys(_)
UnmappedKeys(es) ==
    IF es = <<>> THEN <<>>
    ELSE (IF Head(es).v.none \/ Head(es).v.list = <<>>
          THEN <<Head(es).k>> ELSE <<>>)
         \o UnmappedKeys(Tail(es))

C9_NotInitializedOrEmpty ==
    \A t \in Threads :
        (Returned(t, "count") \/ Returned(t, "unmatched")) =>
            /\ ~refreshed =>
                  /\ result[t].err = "NotInitializedError"
                  /\ cache.none
                  /\ ~listed[t]
            /\ (refreshed /\ SubCacheEntries(cache) = <<>>) =>
                  /\ result[t].err = "ok"
                  /\ result[t].n = 0
                  /\ result[t].refs = <<>>

\* C9 witness: the count has been asked after a complete refresh of an
\* empty store and is 0.
C9_Witness ==
    \E t \in Threads :
        /\ Returned(t, "count")
        /\ refreshed
        /\ cache = RefreshedCache([d \in Directories |-> Listing(<<>>)],
                                  default_regex, unmatched_as_none)
        /\ result[t].err = "ok"
        /\ result[t].n = 0

\* C10: the path build_batch_spec returns for a cached definition is the
\* directory its asset was listed in joined with the reference it was
\* derived from.
C10_BatchSpecPath ==
    \A t \in Threads :
        Returned(t, "build_batch_spec") =>
            \A i \in 1..Len(cache.d) :
                \A j \in 1..Len(cache.d[i].v) :
                    call[t].bd \in SeqRange(cache.d[i].v[j].v.list) =>
                        /\ result[t].err = "ok"
                        /\ result[t].path =
                              JoinFile(DataAssetPath(cache.d[i].k),
                                       cache.d[i].v[j].k)

\* a definition mapped back to a reference and forward again, with the
\* regex configuration dr
RoundTrip(dr, bd, as_none) ==
    LET r == MapBatchDefinitionToDataReference(dr, bd)
    IN  IF r.err # "ok" THEN NoList
        ELSE MapDataReferenceToBatchDefinitionList(dr, r.ref, bd.data_asset_name,
                                                   as_none)

\* C11: every definition a refresh has put in the cache, mapped back to a
\* reference and forward again for its asset, is that definition again.
C11_RoundTrip ==
    \A bd \in CachedDefinitions(cache) :
        RoundTrip(default_regex, bd, unmatched_as_none) = SomeList(<<bd>>)

\* C12: a refresh that follows directly on a refresh that returned normally,
\* over an unchanging store, leaves the cache exactly as it found it.
C12_RefreshIdempotent ==
    \A t \in Threads :
        (/\ Returned(t, "refresh")
         /\ result[t].err = "ok"
         /\ entry[t].after_refresh) =>
            cache = entry[t].cache

\* C12 witness: the second of two refreshes in a row has returned and the
\* cache holds references of both assets, one of them mapped by the
\* overrides of its asset.
C12_Witness ==
    \E t \in Threads :
        /\ Returned(t, "refresh")
        /\ result[t].err = "ok"
        /\ entry[t].after_refresh
        /\ \A a \in SeqRange(AssetNames) : CachedReferences(cache, a) # <<>>
        /\ \E bd \in CachedDefinitions(cache) : bd.data_asset_name = "beta"


\* the regex configuration the claim gives an asset: field by field the
\* asset's own value when it declares one, the connector's configured
\* default otherwise
DeclaredRegex(a) ==
    [pattern |-> IF assets[a].pattern # Absent
                 THEN assets[a].pattern ELSE DefaultRegex0.pattern,
     group_names |-> IF assets[a].group_names # Absent
                     THEN assets[a].group_names ELSE DefaultRegex0.group_names]

\* C13: every reference in the cache has been mapped with the pattern and
\* the group names resolved field by field: the asset's own when declared,
\* the connector's configured default otherwise.
C13_EffectiveRegexPerField ==
    \A i \in 1..Len(cache.d) :
        LET a == cache.d[i].k
            sub == cache.d[i].v
        IN  \A j \in 1..Len(sub) :
                sub[j].v = MapUsingRegex(a, sub[j].k, DeclaredRegex(a).pattern,
                                         DeclaredRegex(a).group_names,
                                         unmatched_as_none)

\* C14: the references a refresh works through for an asset are the
\* listing, asked with the connector's glob directive, of one directory:
\* the connector's base directory joined with the asset's base_directory
\* when the asset declares one, the connector's base directory otherwise.
C14_ListedDirectory ==
    \A t \in Threads :
        pc[t] = "r_ref" =>
            LET a == AssetNames[loc[t].ai]
                dir == IF assets[a].base_directory # Absent
                       THEN BaseDirectory \o assets[a].base_directory
                       ELSE BaseDirectory
            IN  /\ loc[t].listing = [dir |-> dir, glob |-> GlobDirective]
                /\ loc[t].refs = store[dir].files

\* C14 witness: the refresh is working through the files of an asset that
\* declares a base_directory, and the connector's own directory holds
\* other files.
C14_Witness ==
    \E t \in Threads :
        /\ pc[t] = "r_ref"
        /\ assets[AssetNames[loc[t].ai]].base_directory # Absent
        /\ loc[t].refs # <<>>
        /\ loc[t].refs # store[BaseDirectory].files

\* C15: from the first statement of the first refresh on the cache is
\* populated, and no step of any operation takes a populated cache back to
\* the unpopulated state.
C15_CacheLifecycle ==
    /\ [](refreshed => ~cache.none)
    /\ [][~cache.none => ~cache'.none]_vars

\* C15 witness: a further refresh, begun on a populated cache, has come to
\* its end with an error of the store, and the cache is still populated.
C15_Witness ==
    \E t \in Threads :
        /\ Returned(t, "refresh")
        /\ ~entry[t].cache.none
        /\ result[t].err = "StoreUnavailableError"
        /\ ~cache.none

\* what a call of get_batch_definition_list_from_batch_request returns when
\* it runs alone on the unpopulated cache
SerialResult(req) ==
    SelectBatchDefinitions(
        RefreshedCache(store, default_regex, unmatched_as_none), req, sorters)

\* C16: a well-formed get_batch_definition_list_from_batch_request call that
\* began on the unpopulated cache, whatever another such call does at the
\* same time, returns what it returns when it runs alone on the same store.
C16_ConcurrentFirstCalls ==
    \A t \in Threads :
        (/\ Returned(t, "get_batch")
         /\ entry[t].cache.none
         /\ ~IsRejection(result[t].err)) =>
            result[t] = SerialResult(call[t].req)

\* C17: when a refresh has returned normally, the cache holds one entry per
\* configured asset name, in their order, and under each asset one entry
\* per reference the store listed for it, in listing order, whose value is
\* that reference mapped with the asset's effective pattern (its own when
\* declared, else the connector's) under the group names the connector
\* resolves; it holds nothing else, whatever it held before.
C17_RefreshRebuildsCache ==
    \A t \in Threads :
        (Returned(t, "refresh") /\ result[t].err = "ok") =>
            /\ Len(cache.d) = Len(AssetNames)
            /\ \A i \in 1..Len(AssetNames) :
                  LET a == AssetNames[i]
                      refs == loc[t].seen[i]
                      sub == cache.d[i].v
                      rc == EffectiveRegex(default_regex, a)
                  IN  /\ cache.d[i].k = a
                      /\ Len(sub) = Len(refs)
                      /\ \A j \in 1..Len(refs) :
                            /\ sub[j].k = refs[j]
                            /\ sub[j].v = MapUsingRegex(a, refs[j],
                                                        DeclaredRegex(a).pattern,
                                                        rc.group_names,
                                                        unmatched_as_none)

\* C17 witness: a refresh has returned normally on a cache that held, when
\* the call began, a reference the cache no longer holds.
C17_Witness ==
    \E t \in Threads, a \in SeqRange(AssetNames) :
        /\ Returned(t, "refresh")
        /\ result[t].err = "ok"
        /\ CachedReferences(cache, a) # <<>>
        /\ \E r \in SeqRange(CachedReferences(entry[t].cache, a)) :
              r \notin SeqRange(CachedReferences(cache, a))

\* the reverse mapping gives no reference for the definition
NoReference(bd) ==
    LET r == MapBatchDefinitionToDataReference(default_regex, bd)
    IN  r.err # "ok" \/ r.ref = <<>>

\* C18: build_batch_spec ends with an error and without a path whenever the
\* reverse mapping gives no reference for the definition, be it by an
\* exception or by an empty result; no path it returns is a bare directory.
C18_NoSpecWithoutReference ==
    \A t \in Threads :
        Returned(t, "build_batch_spec") =>
            /\ NoReference(call[t].bd) =>
                  /\ result[t].err # "ok"
                  /\ result[t].path = NoResult.path
            /\ result[t].err = "ok" => result[t].path.file # <<>>

\* C18 witness: build_batch_spec has raised ValueError for a definition
\* whose reverse mapping came back empty.
C18_Witness ==
    \E t \in Threads :
        /\ Returned(t, "build_batch_spec")
        /\ NoReference(call[t].bd)
        /\ result[t].err = "ValueError"

\* the filtered candidates of the call, in cache enumeration order, after
\* the partition query
Queried(t) ==
    LET req == call[t].req
        candidates == Candidates(cache, req)
    IN  IF req.partition_request.none THEN candidates
        ELSE SelectFromPartitionRequest(candidates, req.partition_request)

\* C19: the list get_batch_definition_list_from_batch_request returns holds
\* exactly what the partition query kept of the filtered candidates taken in
\* cache enumeration order (for a positional index: the candidate at that
\* position of the cache order, not of the sorted order); the sorters only
\* reorder it, and without sorters it is in cache enumeration order.
C19_StageOrder ==
    \A t \in Threads :
        (Returned(t, "get_batch") /\ result[t].err = "ok") =>
            LET req == call[t].req
                candidates == Candidates(cache, req)
                bds == result[t].bds
            IN  /\ Len(bds) = Len(Queried(t))
                /\ SeqRange(bds) = SeqRange(Queried(t))
                /\ (req.partition_request.has_index
                    /\ req.partition_request.index < Len(candidates)) =>
                      bds = <<candidates[req.partition_request.index + 1]>>
                /\ Len(sorters) = 0 => bds = Queried(t)

\* C19 witness: a request with a positional index has been answered, with
\* sorters configured, by a candidate that is not the one the sorted order
\* has at that position.
C19_Witness ==
    \E t \in Threads :
        /\ Returned(t, "get_batch")
        /\ result[t].err = "ok"
        /\ Len(sorters) > 0
        /\ call[t].req.partition_request.has_index
        /\ Len(result[t].bds) = 1
        /\ LET candidates == Candidates(cache, call[t].req)
           IN  /\ SortKeysPresent(candidates, sorters)
               /\ result[t].bds[1] #
                     SortBatchDefinitionList(candidates, sorters)[
                         call[t].req.partition_request.index + 1]

\* C20: a request that passed both validations and that keeps none of the
\* cached definitions is answered with the empty list and no error, with
\* sorters configured or not, and the cache is as the selection read it.
C20_EmptySelectionIsValid ==
    \A t \in Threads :
        (/\ Returned(t, "get_batch")
         /\ ~IsRejection(result[t].err)
         /\ observed[t].seen
         /\ Queried(t) = <<>>) =>
            /\ result[t].err = "ok"
            /\ result[t].bds = <<>>
            /\ cache = observed[t].cache

\* C20 witness: with sorters configured and definitions of the requested
\* asset in the cache, a request whose partition identifiers none of them
\* has was answered with the empty list.
C20_Witness ==
    \E t \in Threads :
        /\ Returned(t, "get_batch")
        /\ result[t].err = "ok"
        /\ result[t].bds = <<>>
        /\ Len(sorters) > 0
        /\ ~call[t].req.partition_request.none
        /\ \E bd \in CachedDefinitions(cache) :
              bd.data_asset_name = call[t].req.data_asset_name

\* C23: whatever calls have been made, the connector's default regex
\* configuration is the one it was constructed with, so an asset without a
\* group_names override resolves to the configured default group names.
C23_ConfigurationUnchanged ==
    /\ default_regex = DefaultRegex0
    /\ \A a \in SeqRange(AssetNames) :
          assets[a].group_names = Absent =>
              EffectiveRegex(default_regex, a).group_names =
                  DefaultRegex0.group_names

ReadOperations == {"get_batch", "unmatched", "count", "build_batch_spec"}

\* C24: a read operation that began on a populated cache has not changed
\* the cache at any point of its run, whether it ends normally or in error.
C24_ReadsLeaveCache ==
    \A t \in Threads :
        (call[t].op \in ReadOperations /\ ~entry[t].cache.none) =>
            cache = entry[t].cache

\* C24 witness: a get_batch_definition_list_from_batch_request call on a
\* populated cache has ended in an error while the store holds other files
\* than the cache.
C24_Witness ==
    \E t \in Threads, a \in SeqRange(AssetNames) :
        /\ Returned(t, "get_batch")
        /\ ~entry[t].cache.none
        /\ result[t].err # "ok"
        /\ CachedReferences(cache, a) # <<>>
        /\ store[DataAssetPath(a)].ok
        /\ store[DataAssetPath(a)].files # CachedReferences(cache, a)

\* the (asset, reference) pairs of a cache, by position
CachePairs(c) ==
    UNION {{<<i, j>> : j \in 1..Len(c.d[i].v)} : i \in 1..Len(c.d)}

\* C25: with a populated cache, get_data_reference_list_count() is the
\* number of (asset, reference) pairs of the cache, and that is the number
\* of references get_unmatched_data_references() returns plus the number of
\* pairs that have a mapping.
C25_CountIsPairs ==
    ~cache.none =>
        LET pairs == CachePairs(cache)
            mapped == {p \in pairs : ~cache.d[p[1]].v[p[2]].v.none}
        IN  /\ GetDataReferenceListCount(cache).n = Cardinality(pairs)
            /\ Cardinality(pairs) =
                  Len(GetUnmatchedDataReferences(cache).refs) + Cardinality(mapped)

\* C25 witness: get_data_reference_list_count() has returned 4 for a cache
\* in which both assets list the same two references, each asset mapping
\* one of them.
C25_Witness ==
    \E t \in Threads :
        /\ Returned(t, "count")
        /\ result[t].n = 4
        /\ Len(GetUnmatchedDataReferences(cache).refs) = 2
        /\ \A a \in SeqRange(AssetNames) :
              SeqRange(CachedReferences(cache, a)) = { <<1, 2>>, <<3>> }

\* lists of group names and dicts of sorters (keyed by distinct names) of
\* up to MaxNames entries
MaxNames == 3

GroupNameLists == UNION {[1..n -> {"A", "B", "C"}] : n \in 0..MaxNames}

SorterDicts ==
    { [i \in 1..Len(ns) |-> [name |-> ns[i], reverse |-> FALSE]] :
        ns \in { l \in GroupNameLists :
                   \A i, j \in 1..Len(l) : l[i] = l[j] => i = j } }

\* C30: no call ends with the error that there are fewer group names than
\* sorters, and for no list of group names and dict of sorters do the two
\* tests, in their order, end with it: when the names fit, the count fits.
C30_CountCheckNeverRaised ==
    /\ \A t \in Threads :
          result[t].err # "DataConnectorError: fewer group names than sorters"
    /\ \A gn \in GroupNameLists, srt \in SorterDicts :
          CheckSorters(gn, srt) # "DataConnectorError: fewer group names than sorters"

\* C30 witness: a request has been rejected for a sort key missing from
\* group names that are also fewer than the sorters.
C30_Witness ==
    \E t \in Threads :
        /\ Returned(t, "get_batch")
        /\ result[t].err = "DataConnectorError: sort key not in group names"
        /\ Len(ValidateSortersConfiguration(default_regex, call[t].req,
                                            sorters).regex.group_names)
              < Len(sorters)

\* C26: the unexpected values and the unexpected index list of a validation
\* result are those the metrics hold for the decreasing family.
C26_DecreasingFamilyOnly ==
    (dec.pc = "validated" /\ dec.result.err = "ok") =>
        LET mv == MetricVals(dec.column, dec.flags, dec.provided)
        IN  /\ dec.result.unexpected_list =
                  GetList(mv, "column_values.decreasing.unexpected_values")
            /\ dec.result.unexpected_index_list =
                  GetList(mv, "column_values.decreasing.unexpected_index_list")

\* C27: the metric gives one flag per non-null element; the first passes,
\* and a later one passes iff it is less than its predecessor (strictly), or
\* not greater than it (otherwise).
C27_DecreasingFlags ==
    (/\ dec.pc \in {"metric", "validated"}
     /\ \A i \in 1..Len(dec.column) : ~dec.column[i].null) =>
        LET series == NonNull(dec.column)
        IN  /\ Len(dec.flags) = Len(series)
            /\ \A i \in 1..Len(series) :
                  dec.flags[i] <=>
                      \/ i = 1
                      \/ /\ i > 1
                         /\ IF dec.strictly = "True"
                            THEN series[i].v < series[i - 1].v
                            ELSE series[i].v <= series[i - 1].v

\* C28: every validation gives a result, whose unexpected_count is the
\* non-null count less the decreasing count and which, with mostly = 1, is a
\* success iff unexpected_count is 0.
C28_UnexpectedCountAndSuccess ==
    dec.pc = "validated" =>
        LET mv == MetricVals(dec.column, dec.flags, dec.provided)
        IN  /\ dec.result.err = "ok"
            /\ dec.result.unexpected_count =
                  SomeInt(mv["column_values.nonnull.count"].n
                          - mv["column_values.decreasing.count"].n)
            /\ dec.mostly = [num |-> 1, den |-> 1] =>
                  (dec.result.success <=> dec.result.unexpected_count.n = 0)

\* C29: validate_configuration returns True for a configuration whose
\* "value" is an int or None, and raises nothing but
\* InvalidExpectationConfigurationError.
C29_DocumentedValuesAccepted ==
    vc.pc = "done" =>
        LET kwargs == IF vc.configuration.none THEN vc.own
                      ELSE vc.configuration.kwargs
        IN  /\ (kwargs.has_value /\ kwargs.value.type \in {"int", "NoneType"}) =>
                  vc.outcome = "True"
            /\ vc.outcome \in
                  {"True",
                   "InvalidExpectationConfigurationError: The length parameter 'value' is required",
                   "InvalidExpectationConfigurationError: given value must be numerical"}

====
